---------------------------- MODULE Spec2Model ----------------------------
(***************************************************************************)
(* A model of mealplan_to_html.py: the conversion of a weekly meal plan    *)
(* written in Markdown into an HTML page.                                  *)
(*                                                                         *)
(* A Python string is a sequence of characters; a character is a           *)
(* one-character TLA+ string.  The non-ASCII characters of the source are  *)
(* written by their code point: "U+2013" is the en dash, "U+2014" the em   *)
(* dash, and "U+00E2", "U+20AC", "U+201C", "U+201D" are the four           *)
(* characters the delimiter literals of split_day_and_title are made of.   *)
(* An optional value is a sequence: None is the empty one, Some(v) holds   *)
(* the value v.                                                            *)
(***************************************************************************)
EXTENDS Integers, Sequences, FiniteSets, TLC

None == << >>

Some(v) == <<v>>

(***************************************************************************)
(* Strings: what str.strip, str.startswith, the in operator, str.split     *)
(* with maxsplit 1, str.replace, str.splitlines and str.join compute.      *)
(***************************************************************************)
Min(S) == CHOOSE m \in S : \A n \in S : m <= n

Max(S) == CHOOSE m \in S : \A n \in S : m >= n

IsSpace(c) == c \in {" ", "\t", "\n"}

RECURSIVE lstrip(_)
lstrip(s) ==
    IF s # << >> /\ IsSpace(Head(s)) THEN lstrip(Tail(s)) ELSE s

RECURSIVE rstrip(_)
rstrip(s) ==
    IF s # << >> /\ IsSpace(s[Len(s)]) THEN rstrip(SubSeq(s, 1, Len(s) - 1)) ELSE s

strip(s) == rstrip(lstrip(s))

startswith(s, prefix) ==
    Len(s) >= Len(prefix) /\ SubSeq(s, 1, Len(prefix)) = prefix

\* s[n:] for a count n of characters to drop.
From(s, n) == SubSeq(s, n + 1, Len(s))

\* The positions (1-based) at which sub occurs in s.
Occurrences(s, sub) ==
    {p \in 1..(Len(s) - Len(sub) + 1) : SubSeq(s, p, p + Len(sub) - 1) = sub}

Contains(s, sub) == Occurrences(s, sub) # {}

\* s.split(delimiter, 1) for a delimiter that occurs in s.
split1(s, delimiter) ==
    LET p == Min(Occurrences(s, delimiter))
    IN  <<SubSeq(s, 1, p - 1), From(s, p + Len(delimiter) - 1)>>

RECURSIVE replace(_, _, _)
replace(s, c, by) ==
    IF s = << >> THEN << >>
    ELSE (IF Head(s) = c THEN by ELSE <<Head(s)>>) \o replace(Tail(s), c, by)

RECURSIVE join(_, _)
join(sep, parts) ==
    IF parts = << >> THEN << >>
    ELSE IF Len(parts) = 1 THEN parts[1]
    ELSE parts[1] \o sep \o join(sep, Tail(parts))

RECURSIVE concat(_)
concat(parts) ==
    IF parts = << >> THEN << >> ELSE Head(parts) \o concat(Tail(parts))

\* str.splitlines on a text whose only line break is "\n": a final line
\* break ends the last line and opens no empty one.
RECURSIVE splitlines(_)
splitlines(t) ==
    IF t = << >> THEN << >>
    ELSE LET brk == Occurrences(t, <<"\n">>)
         IN  IF brk = {} THEN <<t>>
             ELSE <<SubSeq(t, 1, Min(brk) - 1)>> \o splitlines(From(t, Min(brk)))

(***************************************************************************)
(* html.escape(s) with quote=True: five replacements in this order, the    *)
(* ampersand first.                                                        *)
(***************************************************************************)
html_escape_amp_last(s) ==
    replace(replace(replace(replace(replace(s,
        "<", <<"&","l","t",";">>), ">", <<"&","g","t",";">>), "\"", <<"&","q","u","o","t",";">>), "'", <<"&","#","x","2","7",";">>), "&", <<"&","a","m","p",";">>)

html_escape(s) ==
    replace(replace(replace(replace(replace(s,
        "&", <<"&","a","m","p",";">>), "<", <<"&","l","t",";">>), ">", <<"&","g","t",";">>), "\"", <<"&","q","u","o","t",";">>), "'", <<"&","#","x","2","7",";">>)

(***************************************************************************)
(* render_inline: re.finditer(r"\*\*(.+?)\*\*", text).  A match opens at   *)
(* the leftmost "**" that a later "**" closes with at least one character  *)
(* between them, and closes at the nearest such "**" (the group is lazy).  *)
(* NextMatch gives <<s, e>>, the positions of the opening and of the       *)
(* closing "**" of the first match that starts after last_end characters,  *)
(* or <<0, 0>>.                                                            *)
(***************************************************************************)
Star2(t, p) == p >= 1 /\ p + 1 <= Len(t) /\ t[p] = "*" /\ t[p + 1] = "*"

Closers(t, s) == {e \in (s + 3)..(Len(t) - 1) : Star2(t, e)}

Openers(t, last_end) ==
    {s \in (last_end + 1)..(Len(t) - 1) : Star2(t, s) /\ Closers(t, s) # {}}

NextMatchGreedy(t, last_end) ==
    IF Openers(t, last_end) = {} THEN <<0, 0>>
    ELSE LET s == Min(Openers(t, last_end)) IN <<s, Max(Closers(t, s))>>

NextMatch(t, last_end) ==
    IF Openers(t, last_end) = {} THEN <<0, 0>>
    ELSE LET s == Min(Openers(t, last_end)) IN <<s, Min(Closers(t, s))>>

\* _replace(match): the group, escaped, inside <strong>.
Replace_(t, m) ==
    <<"<","s","t","r","o","n","g",">">> \o html_escape(SubSeq(t, m[1] + 2, m[2] - 1)) \o <<"<","/","s","t","r","o","n","g",">">>

\* One pass of the for loop: the text before the match, escaped, then the match.
InlineStep(t, last_end, m) ==
    html_escape(SubSeq(t, last_end + 1, m[1] - 1)) \o Replace_(t, m)

RECURSIVE RenderFrom(_, _)
RenderFrom(t, last_end) ==
    LET m == NextMatch(t, last_end)
    IN  IF m = <<0, 0>> THEN html_escape(From(t, last_end))
        ELSE InlineStep(t, last_end, m) \o RenderFrom(t, m[2] + 1)

render_inline(t) == RenderFrom(t, 0)

(***************************************************************************)
(* convert_lines_to_html.  i counts the lines already consumed.            *)
(***************************************************************************)
IsListLine(line) == startswith(strip(line), <<"-"," ">>)

\* The inner while loop from line i + 1 on: <<the lines consumed, the items>>.
RECURSIVE ListRunAcrossBlanks(_, _)
ListRunAcrossBlanks(lines, i) ==
    IF i >= Len(lines) THEN <<i, << >> >>
    ELSE IF strip(lines[i + 1]) = << >> THEN ListRunAcrossBlanks(lines, i + 1)
    ELSE IF ~IsListLine(lines[i + 1]) THEN <<i, << >> >>
    ELSE LET rest == ListRunAcrossBlanks(lines, i + 1)
         IN  <<rest[1],
               <<render_inline(strip(From(strip(lines[i + 1]), 2)))>> \o rest[2]>>

RECURSIVE ListRun(_, _)
ListRun(lines, i) ==
    IF i >= Len(lines) \/ ~IsListLine(lines[i + 1]) THEN <<i, << >> >>
    ELSE LET rest == ListRun(lines, i + 1)
         IN  <<rest[1],
               <<render_inline(strip(From(strip(lines[i + 1]), 2)))>> \o rest[2]>>

ListItem(item) == <<"<","l","i",">">> \o item \o <<"<","/","l","i",">">>

UlBlock(items) ==
    <<"<","u","l",">">> \o concat([k \in 1..Len(items) |-> ListItem(items[k])]) \o <<"<","/","u","l",">">>

PBlock(stripped) == <<"<","p",">">> \o render_inline(stripped) \o <<"<","/","p",">">>

\* One pass of the outer while loop at i < len(lines): <<i, html_parts>> after it.
ConvertStep(lines, i, html_parts) ==
    LET stripped == strip(lines[i + 1])
    IN  IF stripped = << >> THEN <<i + 1, html_parts>>
        ELSE IF startswith(stripped, <<"-"," ">>)
             THEN LET run == ListRun(lines, i)
                  IN  <<run[1], Append(html_parts, UlBlock(run[2]))>>
        ELSE <<i + 1, Append(html_parts, PBlock(stripped))>>

RECURSIVE ConvertFrom(_, _, _)
ConvertFrom(lines, i, html_parts) ==
    IF i >= Len(lines) THEN html_parts
    ELSE LET next == ConvertStep(lines, i, html_parts)
         IN  ConvertFrom(lines, next[1], next[2])

convert_lines_to_html(lines) == join(<<"\n">>, ConvertFrom(lines, 0, << >>))

(***************************************************************************)
(* split_day_and_title.  The delimiter literals are the ones the source    *)
(* file holds: its first and third are a space, the three characters       *)
(* U+00E2 U+20AC U+201C (resp. U+201D) and a space.                        *)
(***************************************************************************)
DELIMITERS ==
    << <<" ","U+00E2","U+20AC","U+201C"," ">>, <<" ","-"," ">>, <<" ","U+00E2","U+20AC","U+201D"," ">>, <<" ","-","-"," ">> >>

RECURSIVE SplitOn(_, _, _)
SplitOn(raw_title, delimiters, k) ==
    IF k > Len(delimiters) THEN << << >>, strip(raw_title) >>
    ELSE IF Contains(raw_title, delimiters[k])
         THEN LET halves == split1(raw_title, delimiters[k])
              IN  <<strip(halves[1]), strip(halves[2])>>
    ELSE SplitOn(raw_title, delimiters, k + 1)

split_day_and_title(raw_title) == SplitOn(raw_title, DELIMITERS, 1)

(***************************************************************************)
(* extract_weekday: DAY_NAME_PATTERN.search, a case-insensitive match of a *)
(* weekday name between two word boundaries, the leftmost one.             *)
(***************************************************************************)
UPPER == <<"A","B","C","D","E","F","G","H","I","J","K","L","M","N","O","P","Q","R","S","T","U","V","W","X","Y","Z">>

LOWER == <<"a","b","c","d","e","f","g","h","i","j","k","l","m","n","o","p","q","r","s","t","u","v","w","x","y","z">>

lower(c) ==
    IF \E k \in 1..Len(UPPER) : UPPER[k] = c
    THEN LOWER[CHOOSE k \in 1..Len(UPPER) : UPPER[k] = c]
    ELSE c

IsWordChar(c) ==
    \/ \E k \in 1..Len(UPPER) : c \in {UPPER[k], LOWER[k]}
    \/ c \in {"0", "1", "2", "3", "4", "5", "6", "7", "8", "9", "_", "U+00E2"}

\* DAY_NAME_TO_ISO: the k-th name has ISO weekday number k.
DAY_NAMES ==
    << <<"m","o","n","d","a","y">>, <<"t","u","e","s","d","a","y">>, <<"w","e","d","n","e","s","d","a","y">>, <<"t","h","u","r","s","d","a","y">>, <<"f","r","i","d","a","y">>, <<"s","a","t","u","r","d","a","y">>,
       <<"s","u","n","d","a","y">> >>

NameAt(s, p, k) ==
    /\ p + Len(DAY_NAMES[k]) - 1 <= Len(s)
    /\ [j \in 1..Len(DAY_NAMES[k]) |-> lower(s[p + j - 1])] = DAY_NAMES[k]
    /\ (p = 1 \/ ~IsWordChar(s[p - 1]))
    /\ (p + Len(DAY_NAMES[k]) > Len(s) \/ ~IsWordChar(s[p + Len(DAY_NAMES[k])]))

DayMatches(s) == {m \in (1..Len(s)) \X (1..7) : NameAt(s, m[1], m[2])}

extract_weekday_unbounded(day_label) ==
    LET hits == {m \in (1..Len(day_label)) \X (1..7) :
                    /\ m[1] + Len(DAY_NAMES[m[2]]) - 1 <= Len(day_label)
                    /\ [j \in 1..Len(DAY_NAMES[m[2]]) |-> lower(day_label[m[1] + j - 1])]
                           = DAY_NAMES[m[2]]}
    IN  IF hits = {} THEN None
        ELSE Some((CHOOSE m \in hits : \A n \in hits : m[1] <= n[1])[2])

extract_weekday(day_label) ==
    IF DayMatches(day_label) = {} THEN None
    ELSE Some((CHOOSE m \in DayMatches(day_label) :
                   \A n \in DayMatches(day_label) : m[1] <= n[1])[2])

(***************************************************************************)
(* datetime.date: fromisocalendar, and the fields format_display_date      *)
(* reads.  A date is a record [year, month, day].                          *)
(***************************************************************************)
MINYEAR == 1

MAXYEAR == 9999

\* date.max.toordinal()
MAXORDINAL == 3652059

is_leap(year) == year % 4 = 0 /\ (year % 100 # 0 \/ year % 400 = 0)

days_before_year(year) ==
    LET y == year - 1 IN y * 365 + y \div 4 - y \div 100 + y \div 400

DAYS_IN_MONTH == <<31, 28, 31, 30, 31, 30, 31, 31, 30, 31, 30, 31>>

days_in_month(year, month) ==
    IF month = 2 /\ is_leap(year) THEN 29 ELSE DAYS_IN_MONTH[month]

RECURSIVE days_before_month(_, _)
days_before_month(year, month) ==
    IF month = 1 THEN 0
    ELSE days_before_month(year, month - 1) + days_in_month(year, month - 1)

ymd2ord(year, month, day) ==
    days_before_year(year) + days_before_month(year, month) + day

ord2ymd(n) ==
    LET year == CHOOSE y \in (n \div 366)..(n \div 365 + 1) :
                    days_before_year(y) < n /\ n <= days_before_year(y + 1)
        rest == n - days_before_year(year)
        month == CHOOSE m \in 1..12 :
                    /\ days_before_month(year, m) < rest
                    /\ rest <= days_before_month(year, m) + days_in_month(year, m)
    IN  [year |-> year, month |-> month, day |-> rest - days_before_month(year, month)]

isoweek1monday(year) ==
    LET firstday == ymd2ord(year, 1, 1)
        firstweekday == (firstday + 6) % 7
        week1monday == firstday - firstweekday
    IN  IF firstweekday > 3 THEN week1monday + 7 ELSE week1monday

\* Whether date.fromisocalendar(year, week, day) raises ValueError.
IsoInvalidAny53(year, week, day) ==
    \/ ~(MINYEAR <= year /\ year <= MAXYEAR)
    \/ ~(0 < week /\ week < 54)
    \/ ~(0 < day /\ day < 8)
    \/ isoweek1monday(year) + (week - 1) * 7 + (day - 1) > MAXORDINAL

IsoInvalid(year, week, day) ==
    \/ ~(MINYEAR <= year /\ year <= MAXYEAR)
    \/ /\ ~(0 < week /\ week < 53)
       /\ ~(/\ week = 53
            /\ LET first_weekday == (ymd2ord(year, 1, 1)) % 7
               IN  first_weekday = 4 \/ (first_weekday = 3 /\ is_leap(year)))
    \/ ~(0 < day /\ day < 8)
    \/ isoweek1monday(year) + (week - 1) * 7 + (day - 1) > MAXORDINAL

fromisocalendar(year, week, day) ==
    ord2ymd(isoweek1monday(year) + (week - 1) * 7 + (day - 1))

MONTH_ABBR ==
    << <<"J","a","n">>, <<"F","e","b">>, <<"M","a","r">>, <<"A","p","r">>, <<"M","a","y">>, <<"J","u","n">>, <<"J","u","l">>, <<"A","u","g">>, <<"S","e","p">>,
       <<"O","c","t">>, <<"N","o","v">>, <<"D","e","c">> >>

DIGITS == <<"0","1","2","3","4","5","6","7","8","9">>

RECURSIVE str(_)
str(n) == IF n < 10 THEN <<DIGITS[n + 1]>> ELSE str(n \div 10) \o <<DIGITS[(n % 10) + 1]>>

format_display_date(value) ==
    MONTH_ABBR[value.month] \o <<" ">> \o str(value.day) \o <<","," ">> \o str(value.year)

(***************************************************************************)
(* parse_weekly_plan.  The loop's state is a record [title, intro_lines,   *)
(* sections, current_section]; a section is a record [raw_title, lines].   *)
(***************************************************************************)
ParseStart ==
    [title |-> << >>, intro_lines |-> << >>, sections |-> << >>,
     current_section |-> None]

\* if stripped.startswith("# "): the title is set while it is still empty.
OnTitleLineAlways(st, stripped) ==
    [st EXCEPT !.title = strip(From(stripped, 2))]

OnTitleLine(st, stripped) ==
    IF st.title = << >> THEN [st EXCEPT !.title = strip(From(stripped, 2))] ELSE st

\* if stripped.startswith("## "): the open section is closed, a new one opened.
OnHeadingLineDropOpen(st, stripped) ==
    [st EXCEPT !.current_section =
                   Some([raw_title |-> strip(From(stripped, 3)), lines |-> << >>])]

OnHeadingLine(st, stripped) ==
    [st EXCEPT !.sections = IF st.current_section # None
                            THEN Append(st.sections, st.current_section[1])
                            ELSE st.sections,
               !.current_section =
                   Some([raw_title |-> strip(From(stripped, 3)), lines |-> << >>])]

\* if stripped == "---"
IsRuleNever(stripped) == FALSE

IsRule(stripped) == stripped = <<"-","-","-">>

\* target.append(raw_line)
OnOtherLine(st, raw_line) ==
    IF st.current_section = None
    THEN [st EXCEPT !.intro_lines = Append(st.intro_lines, raw_line)]
    ELSE [st EXCEPT !.current_section[1].lines =
                        Append(st.current_section[1].lines, raw_line)]

\* One pass of the for loop.
ParseStep(st, raw_line) ==
    LET stripped == strip(raw_line)
    IN  IF startswith(stripped, <<"#"," ">>) THEN OnTitleLine(st, stripped)
        ELSE IF startswith(stripped, <<"#","#"," ">>) THEN OnHeadingLine(st, stripped)
        ELSE IF IsRule(stripped) THEN st
        ELSE OnOtherLine(st, raw_line)

\* After the loop: if current_section: sections.append(current_section)
ParseEnd(st) ==
    IF st.current_section # None
    THEN [st EXCEPT !.sections = Append(st.sections, st.current_section[1])]
    ELSE st

(***************************************************************************)
(* build_html_document.  A card is the text of its f-string without the    *)
(* template's indentation and line breaks; the document is the record of   *)
(* the four places of the page template that the function fills.           *)
(***************************************************************************)
DEFAULT_TITLE == <<"W","e","e","k","l","y"," ","M","e","a","l"," ","P","l","a","n">>

PageTitle(parsed_title) == IF parsed_title # << >> THEN parsed_title ELSE DEFAULT_TITLE

WeekdayNumber(day_label) ==
    IF day_label # << >> THEN extract_weekday(day_label) ELSE None

\* iso_dates.get(weekday_number) if iso_dates and weekday_number else None
MealDateNextDay(dates, weekday_number) ==
    IF dates # None /\ weekday_number # None THEN Some(dates[(weekday_number[1] % 7) + 1])
    ELSE None

MealDate(dates, weekday_number) ==
    IF dates # None /\ weekday_number # None THEN Some(dates[weekday_number[1]])
    ELSE None

DateHtml(meal_date) ==
    IF meal_date # None
    THEN <<"<","s","p","a","n"," ","c","l","a","s","s","=","\"","m","e","a","l","-","d","a","t","e","\"",">">>
             \o html_escape(format_display_date(meal_date[1])) \o <<"<","/","s","p","a","n",">">>
    ELSE << >>

DayNameHtml(day_label) ==
    IF day_label # << >>
    THEN <<"<","s","p","a","n"," ","c","l","a","s","s","=","\"","d","a","y","-","n","a","m","e","\"",">">> \o html_escape(day_label) \o <<"<","/","s","p","a","n",">">>
    ELSE << >>

DayHtmlOnlyDated(day_label, day_name_html, date_html) ==
    IF day_label # << >> /\ date_html # << >>
    THEN <<"<","p"," ","c","l","a","s","s","=","\"","m","e","a","l","-","d","a","y","\"",">">> \o day_name_html \o date_html \o <<"<","/","p",">">>
    ELSE << >>

DayHtml(day_label, day_name_html, date_html) ==
    IF day_label # << >>
    THEN <<"<","p"," ","c","l","a","s","s","=","\"","m","e","a","l","-","d","a","y","\"",">">> \o day_name_html \o date_html \o <<"<","/","p",">">>
    ELSE << >>

CARD_OPEN == <<"<","s","e","c","t","i","o","n"," ","c","l","a","s","s","=","\"","m","e","a","l","-","c","a","r","d","\"",">">>

\* One pass of the loop over the sections: the card appended to cards_html.
Card(section, dates) ==
    LET split == split_day_and_title(section.raw_title)
        day_label == split[1]
        meal_title == split[2]
        content_html == convert_lines_to_html(section.lines)
        weekday_number == WeekdayNumber(day_label)
        meal_date == MealDate(dates, weekday_number)
        date_html == DateHtml(meal_date)
        day_name_html == DayNameHtml(day_label)
        day_html == DayHtml(day_label, day_name_html, date_html)
    IN  CARD_OPEN \o day_html
            \o <<"<","h","2",">">> \o html_escape(meal_title) \o <<"<","/","h","2",">">>
            \o <<"<","d","i","v"," ","c","l","a","s","s","=","\"","m","e","a","l","-","b","o","d","y","\"",">">> \o content_html \o <<"<","/","d","i","v",">">>
            \o <<"<","/","s","e","c","t","i","o","n",">">>

IntroSection(lines) ==
    LET intro_html == IF lines # << >> THEN convert_lines_to_html(lines) ELSE << >>
    IN  IF intro_html # << >>
        THEN <<"<","d","i","v"," ","c","l","a","s","s","=","\"","i","n","t","r","o","\"",">">> \o intro_html \o <<"<","/","d","i","v",">">>
        ELSE << >>

Document(parsed_title, lines, cards) ==
    [title |-> html_escape(PageTitle(parsed_title)),
     h1 |-> html_escape(PageTitle(parsed_title)),
     intro_section |-> IntroSection(lines),
     cards_markup |-> join(<<"\n">>, cards)]

(***************************************************************************)
(* The state: main's locals and the file system it acts on, the locals of  *)
(* build_html_document and parse_weekly_plan that main's call runs         *)
(* through, and the locals of render_inline (ri_), convert_lines_to_html   *)
(* (cl_) and split_day_and_title (sd_) when each is run on its own.        *)
(***************************************************************************)
VARIABLES pc, year, iso_week, input_file, markdown_text, iso_dates,
          raw_lines, line_no, title, intro_lines, sections, current_section,
          cards_html, html_document, output_dir, output_file,
          ri_text, ri_last_end, ri_result,
          cl_lines, cl_i, cl_parts, cl_html,
          sd_raw_title, sd_result

mainVars ==
    <<year, iso_week, input_file, markdown_text, iso_dates, raw_lines, line_no,
      title, intro_lines, sections, current_section, cards_html, html_document,
      output_dir, output_file>>

inlineVars == <<ri_text, ri_last_end, ri_result>>

convertVars == <<cl_lines, cl_i, cl_parts, cl_html>>

splitVars == <<sd_raw_title, sd_result>>

vars == <<pc, mainVars, inlineVars, convertVars, splitVars>>

(***************************************************************************)
(* Inputs.                                                                 *)
(***************************************************************************)
MaxDocLines == 3

MaxInlinePieces == 6

MaxBodyLines == 4

MaxTitlePieces == 4

SeqsUpTo(S, n) == UNION {[1..k -> S] : k \in 0..n}

\* The lines a document is made of.
DocLines ==
    { <<"#"," ","P","l","a","n">>, <<" "," ","#"," ","O","t","h","e","r"," ">>, <<"#","#"," ","M","o","n","d","a","y"," ","-"," ","P","i","z","z","a">>, <<"#","#"," ","L","u","n","c","h"," ","-"," ","S","o","u","p">>,
      <<"#","#"," "," ","S","p","e","c","i","a","l"," ">>, <<"#","#"," ","O","n"," ","M","o","n","d","a","y","i","s","h"," ","S","t","r","e","e","t"," ","-"," ","S","t","e","w">>, <<" ","-","-","-"," ">>,
      <<" ","-"," ","*","*","T","a","c","o","s","*","*"," ","&"," ","l","i","m","e">> }

\* A longer document: a title, an intro, and sections with rules, a second
\* title line and list lines.
FULL_DOCUMENT ==
    << <<"#"," ","P","l","a","n">>, <<"M","e","a","l","s"," ","f","o","r"," ","t","h","e"," ","w","e","e","k">>, <<"#","#"," ","M","o","n","d","a","y"," ","-"," ","P","i","z","z","a">>, <<"-","-","-">>, <<" "," ","#"," ","O","t","h","e","r"," ">>,
       <<" ","-"," ","*","*","T","a","c","o","s","*","*"," ","&"," ","l","i","m","e">>, <<" ","-"," ","S","a","l","s","a">>, << >>, <<"S","e","r","v","e"," ","w","i","t","h"," ","l","i","m","e",".">>,
       <<"#","#"," ","L","u","n","c","h"," ","-"," ","S","o","u","p">>, <<"#","#"," "," ","S","p","e","c","i","a","l"," ">> >>

Documents ==
    {join(<<"\n">>, d) : d \in SeqsUpTo(DocLines, MaxDocLines) \cup {FULL_DOCUMENT}}

Years == {2025, 2026}

Weeks == {0, 53, 54}

\* The pieces a text given to render_inline is made of.
InlinePieces == { <<"*","*">>, <<"*">>, <<"a">>, <<"<","&">>, <<">","\"","'">> }

InlineTexts == {concat(t) : t \in SeqsUpTo(InlinePieces, MaxInlinePieces)}

\* The lines given to convert_lines_to_html.
BodyLines == { <<"-"," ","T","a","c","o","s">>, <<"-"," ","S","a","l","s","a">>, << >>, <<"S","e","r","v","e"," ","w","i","t","h"," ","l","i","m","e",".">>, <<" "," ">>, <<" ","-"," "," ","*","*","x","*","*"," ">> }

\* The pieces a heading given to split_day_and_title is made of.
TitlePieces ==
    { <<"M","o","n","d","a","y">>, <<"P","i","z","z","a"," ","N","i","g","h","t">>, <<" ","U+2013"," ">>, <<" ","-"," ">>, <<" ","U+2014"," ">>, <<" ","-","-"," ">>,
      <<" ","U+00E2","U+20AC","U+201C"," ">>, <<" ">> }

RawTitles == {concat(t) : t \in SeqsUpTo(TitlePieces, MaxTitlePieces)}

MainIdle ==
    /\ year = None /\ iso_week = None /\ input_file = << >> /\ markdown_text = << >>
    /\ iso_dates = None /\ raw_lines = << >> /\ line_no = 0
    /\ title = << >> /\ intro_lines = << >> /\ sections = << >>
    /\ current_section = None /\ cards_html = << >> /\ html_document = None
    /\ output_dir = FALSE /\ output_file = None

InlineIdle == ri_text = << >> /\ ri_last_end = 0 /\ ri_result = << >>

ConvertIdle == cl_lines = << >> /\ cl_i = 0 /\ cl_parts = << >> /\ cl_html = << >>

SplitIdle == sd_raw_title = << >> /\ sd_result = << >>

(***************************************************************************)
(* main, with the call of build_html_document run step by step.            *)
(***************************************************************************)
Init ==
    /\ pc = "parse_args"
    /\ year \in {None} \cup {Some(y) : y \in Years}
    /\ iso_week \in {None} \cup {Some(w) : w \in Weeks}
    /\ input_file \in Documents
    /\ markdown_text = << >> /\ iso_dates = None /\ raw_lines = << >> /\ line_no = 0
    /\ title = << >> /\ intro_lines = << >> /\ sections = << >>
    /\ current_section = None /\ cards_html = << >> /\ html_document = None
    /\ output_dir = FALSE /\ output_file = None
    /\ InlineIdle /\ ConvertIdle /\ SplitIdle

\* parse_args: parser.error when exactly one of --iso-week, --year is given.
main_parse_args ==
    /\ pc = "parse_args"
    /\ pc' = IF (iso_week = None) # (year = None) THEN "usage_error" ELSE "read_text"
    /\ UNCHANGED <<mainVars, inlineVars, convertVars, splitVars>>

main_read_text ==
    /\ pc = "read_text"
    /\ markdown_text' = input_file
    /\ pc' = "iso_dates"
    /\ UNCHANGED <<year, iso_week, input_file, iso_dates, raw_lines, line_no, title,
                   intro_lines, sections, current_section, cards_html, html_document,
                   output_dir, output_file, inlineVars, convertVars, splitVars>>

\* The dict comprehension of main: any ValueError ends the run.
IsoDates(y, w) == [weekday \in 1..7 |-> fromisocalendar(y, w, weekday)]

IsoDatesRaises(y, w) == \E weekday \in 1..7 : IsoInvalid(y, w, weekday)

main_iso_dates ==
    /\ pc = "iso_dates"
    /\ IF iso_week # None /\ year # None
       THEN IF IsoDatesRaises(year[1], iso_week[1])
            THEN pc' = "iso_error" /\ UNCHANGED iso_dates
            ELSE pc' = "build" /\ iso_dates' = IsoDates(year[1], iso_week[1])
       ELSE pc' = "build" /\ UNCHANGED iso_dates
    /\ UNCHANGED <<year, iso_week, input_file, markdown_text, raw_lines, line_no, title,
                   intro_lines, sections, current_section, cards_html, html_document,
                   output_dir, output_file, inlineVars, convertVars, splitVars>>

\* build_html_document calls parse_weekly_plan: its locals, and the lines to loop over.
parse_weekly_plan_start ==
    /\ pc = "build"
    /\ raw_lines' = splitlines(markdown_text)
    /\ line_no' = 0
    /\ title' = ParseStart.title
    /\ intro_lines' = ParseStart.intro_lines
    /\ sections' = ParseStart.sections
    /\ current_section' = ParseStart.current_section
    /\ pc' = "parse"
    /\ UNCHANGED <<year, iso_week, input_file, markdown_text, iso_dates, cards_html,
                   html_document, output_dir, output_file, inlineVars, convertVars,
                   splitVars>>

ParseState ==
    [title |-> title, intro_lines |-> intro_lines, sections |-> sections,
     current_section |-> current_section]

SetParseState(st) ==
    /\ title' = st.title
    /\ intro_lines' = st.intro_lines
    /\ sections' = st.sections
    /\ current_section' = st.current_section

parse_weekly_plan_line ==
    /\ pc = "parse"
    /\ line_no < Len(raw_lines)
    /\ SetParseState(ParseStep(ParseState, raw_lines[line_no + 1]))
    /\ line_no' = line_no + 1
    /\ UNCHANGED <<pc, year, iso_week, input_file, markdown_text, iso_dates, raw_lines,
                   cards_html, html_document, output_dir, output_file, inlineVars,
                   convertVars, splitVars>>

parse_weekly_plan_return ==
    /\ pc = "parse"
    /\ line_no = Len(raw_lines)
    /\ SetParseState(ParseEnd(ParseState))
    /\ pc' = "cards"
    /\ UNCHANGED <<year, iso_week, input_file, markdown_text, iso_dates, raw_lines,
                   line_no, cards_html, html_document, output_dir, output_file,
                   inlineVars, convertVars, splitVars>>

build_card ==
    /\ pc = "cards"
    /\ Len(cards_html) < Len(sections)
    /\ cards_html' = Append(cards_html, Card(sections[Len(cards_html) + 1], iso_dates))
    /\ UNCHANGED <<pc, year, iso_week, input_file, markdown_text, iso_dates, raw_lines,
                   line_no, title, intro_lines, sections, current_section,
                   html_document, output_dir, output_file, inlineVars, convertVars,
                   splitVars>>

build_return ==
    /\ pc = "cards"
    /\ Len(cards_html) = Len(sections)
    /\ html_document' = Some(Document(title, intro_lines, cards_html))
    /\ pc' = "mkdir"
    /\ UNCHANGED <<year, iso_week, input_file, markdown_text, iso_dates, raw_lines,
                   line_no, title, intro_lines, sections, current_section, cards_html,
                   output_dir, output_file, inlineVars, convertVars, splitVars>>

main_mkdir ==
    /\ pc = "mkdir"
    /\ output_dir' = TRUE
    /\ pc' = "write_text"
    /\ UNCHANGED <<year, iso_week, input_file, markdown_text, iso_dates, raw_lines,
                   line_no, title, intro_lines, sections, current_section, cards_html,
                   html_document, output_file, inlineVars, convertVars, splitVars>>

main_write_text ==
    /\ pc = "write_text"
    /\ output_file' = html_document
    /\ pc' = "done"
    /\ UNCHANGED <<year, iso_week, input_file, markdown_text, iso_dates, raw_lines,
                   line_no, title, intro_lines, sections, current_section, cards_html,
                   html_document, output_dir, inlineVars, convertVars, splitVars>>

Next ==
    \/ main_parse_args
    \/ main_read_text
    \/ main_iso_dates
    \/ parse_weekly_plan_start
    \/ parse_weekly_plan_line
    \/ parse_weekly_plan_return
    \/ build_card
    \/ build_return
    \/ main_mkdir
    \/ main_write_text

Spec == Init /\ [][Next]_vars

(***************************************************************************)
(* render_inline on its own: one step per match, one for the tail.         *)
(***************************************************************************)
InitInline ==
    /\ pc = "inline_loop"
    /\ ri_text \in InlineTexts
    /\ ri_last_end = 0
    /\ ri_result = << >>
    /\ MainIdle /\ ConvertIdle /\ SplitIdle

render_inline_match ==
    /\ pc = "inline_loop"
    /\ NextMatch(ri_text, ri_last_end) # <<0, 0>>
    /\ ri_result' = ri_result
                      \o InlineStep(ri_text, ri_last_end, NextMatch(ri_text, ri_last_end))
    /\ ri_last_end' = NextMatch(ri_text, ri_last_end)[2] + 1
    /\ UNCHANGED <<pc, ri_text, mainVars, convertVars, splitVars>>

render_inline_return ==
    /\ pc = "inline_loop"
    /\ NextMatch(ri_text, ri_last_end) = <<0, 0>>
    /\ ri_result' = ri_result \o html_escape(From(ri_text, ri_last_end))
    /\ pc' = "inline_done"
    /\ UNCHANGED <<ri_text, ri_last_end, mainVars, convertVars, splitVars>>

NextInline == render_inline_match \/ render_inline_return

SpecInline == InitInline /\ [][NextInline]_vars

(***************************************************************************)
(* convert_lines_to_html on its own: one step per pass of the outer loop.  *)
(***************************************************************************)
InitConvert ==
    /\ pc = "convert_loop"
    /\ cl_lines \in SeqsUpTo(BodyLines, MaxBodyLines)
    /\ cl_i = 0
    /\ cl_parts = << >>
    /\ cl_html = << >>
    /\ MainIdle /\ InlineIdle /\ SplitIdle

convert_lines_pass ==
    /\ pc = "convert_loop"
    /\ cl_i < Len(cl_lines)
    /\ cl_i' = ConvertStep(cl_lines, cl_i, cl_parts)[1]
    /\ cl_parts' = ConvertStep(cl_lines, cl_i, cl_parts)[2]
    /\ UNCHANGED <<pc, cl_lines, cl_html, mainVars, inlineVars, splitVars>>

convert_lines_return ==
    /\ pc = "convert_loop"
    /\ cl_i >= Len(cl_lines)
    /\ cl_html' = join(<<"\n">>, cl_parts)
    /\ pc' = "convert_done"
    /\ UNCHANGED <<cl_lines, cl_i, cl_parts, mainVars, inlineVars, splitVars>>

NextConvert == convert_lines_pass \/ convert_lines_return

SpecConvert == InitConvert /\ [][NextConvert]_vars

(***************************************************************************)
(* split_day_and_title on its own.                                         *)
(***************************************************************************)
InitSplit ==
    /\ pc = "split_call"
    /\ sd_raw_title \in RawTitles
    /\ sd_result = << >>
    /\ MainIdle /\ InlineIdle /\ ConvertIdle

split_day_and_title_call ==
    /\ pc = "split_call"
    /\ sd_result' = split_day_and_title(sd_raw_title)
    /\ pc' = "split_done"
    /\ UNCHANGED <<sd_raw_title, mainVars, inlineVars, convertVars>>

NextSplit == split_day_and_title_call

SpecSplit == InitSplit /\ [][NextSplit]_vars

(***************************************************************************)
(* What the properties below speak of: the lines of the input, its         *)
(* level-2 headings and title lines, and the places of a card.             *)
(***************************************************************************)
InputLines == splitlines(markdown_text)

IsHeading(line) == startswith(strip(line), <<"#","#"," ">>)

IsTitleLine(line) == startswith(strip(line), <<"#"," ">>)

IsRuleLine(line) == strip(line) = <<"-","-","-">>

IsKept(line) == ~IsTitleLine(line) /\ ~IsRuleLine(line)

IsNotRule(line) == ~IsRuleLine(line)

Headings == SelectSeq(InputLines, IsHeading)

HeadingPositions == {p \in 1..Len(InputLines) : IsHeading(InputLines[p])}

\* The position of the k-th heading, and the lines from it to the next heading.
HeadingAt(k) ==
    CHOOSE p \in HeadingPositions : Cardinality({q \in HeadingPositions : q <= p}) = k

SpanEnd(k) ==
    IF k = Cardinality(HeadingPositions) THEN Len(InputLines) ELSE HeadingAt(k + 1) - 1

Span(k) == SubSeq(InputLines, HeadingAt(k) + 1, SpanEnd(k))

\* parse_weekly_plan has just returned; build_html_document has just returned.
Parsed == pc = "cards" /\ cards_html = << >>

Built == pc = "mkdir"

MEAL_DAY_OPEN == <<"<","p"," ","c","l","a","s","s","=","\"","m","e","a","l","-","d","a","y","\"",">">>

MEAL_DATE_OPEN == <<"<","s","p","a","n"," ","c","l","a","s","s","=","\"","m","e","a","l","-","d","a","t","e","\"",">">>

DayLabelOf(k) == split_day_and_title(sections[k].raw_title)[1]

MealTitleOf(k) == split_day_and_title(sections[k].raw_title)[2]

\* C1: a document with N level-2 headings parses into N sections, in heading
\* order, and the built page holds N meal cards, the k-th one for the k-th
\* heading: no section yields no card or more than one.
C1_OneCardPerHeading ==
    /\ Parsed =>
          /\ Len(sections) = Len(Headings)
          /\ \A k \in 1..Len(sections) :
                 sections[k].raw_title = strip(From(strip(Headings[k]), 3))
    /\ Built =>
          /\ Len(cards_html) = Len(Headings)
          /\ Cardinality(Occurrences(html_document[1].cards_markup, CARD_OPEN))
                 = Len(Headings)
          /\ \A k \in 1..Len(cards_html) :
                 /\ Cardinality(Occurrences(cards_html[k], CARD_OPEN)) = 1
                 /\ Contains(cards_html[k],
                        <<"<","h","2",">">> \o html_escape(MealTitleOf(k)) \o <<"<","/","h","2",">">>)

C1_Witness ==
    /\ Built
    /\ Len(Headings) = 3
    /\ Headings[1] # Headings[2] /\ Headings[2] # Headings[3]

\* C2, as stated: after parsing, a section's lines are the raw lines between
\* its heading and the next one (or the end of the input), in order and
\* verbatim, with the horizontal-rule lines as the only ones left out.
C2_OnlyRulesLeftOut ==
    Parsed => \A k \in 1..Len(sections) :
                  k <= Len(Headings) => sections[k].lines = SelectSeq(Span(k), IsNotRule)

\* C2, amended: the lines left out are the horizontal-rule lines and the
\* "# " title lines; every other line of the span is kept, in order and verbatim.
C2_RulesAndTitlesLeftOut ==
    Parsed => /\ Len(sections) = Len(Headings)
              /\ \A k \in 1..Len(sections) :
                     sections[k].lines = SelectSeq(Span(k), IsKept)

C2_Witness ==
    /\ Parsed
    /\ \E k \in 1..Len(sections) :
           /\ \E p \in 1..Len(Span(k)) : IsRuleLine(Span(k)[p])
           /\ \E p \in 1..Len(Span(k)) : IsTitleLine(Span(k)[p])
           /\ \E p \in 1..Len(sections[k].lines) : sections[k].lines[p] # strip(sections[k].lines[p])

\* The title lines among the lines parse_weekly_plan has read, and the lines
\* it has put into sections.
TitleLinesRead == SelectSeq(SubSeq(InputLines, 1, line_no), IsTitleLine)

AllSectionLines ==
    concat([k \in 1..Len(sections) |-> sections[k].lines])
        \o (IF pc = "parse" /\ current_section # None THEN current_section[1].lines ELSE << >>)

\* C3: the title is the trimmed remainder of the first "# " line read so far
\* and no later one changes it; no "# " line reaches intro_lines or a
\* section's lines; with no "# " line the title is empty and the page's
\* <title> and <h1> are both "Weekly Meal Plan".
C3_FirstTitleLineWins ==
    /\ pc \in {"parse", "cards", "mkdir"} =>
          /\ title = IF TitleLinesRead = << >> THEN << >>
                     ELSE strip(From(strip(TitleLinesRead[1]), 2))
          /\ TitleLinesRead # << >> => title # << >>
          /\ \A p \in 1..Len(intro_lines) : ~IsTitleLine(intro_lines[p])
          /\ \A p \in 1..Len(AllSectionLines) : ~IsTitleLine(AllSectionLines[p])
    /\ (Built /\ TitleLinesRead = << >>) =>
          /\ title = << >>
          /\ html_document[1].title = <<"W","e","e","k","l","y"," ","M","e","a","l"," ","P","l","a","n">>
          /\ html_document[1].h1 = <<"W","e","e","k","l","y"," ","M","e","a","l"," ","P","l","a","n">>
    /\ (Built /\ TitleLinesRead # << >>) =>
          /\ html_document[1].title = html_escape(title)
          /\ html_document[1].h1 = html_escape(title)

C3_Witness ==
    /\ Built
    /\ Len(TitleLinesRead) = 2
    /\ strip(TitleLinesRead[1]) # strip(TitleLinesRead[2])
    /\ sections # << >>

\* The delimiters as the documentation of split_day_and_title has them.
CLAIMED_DELIMITERS == << <<" ","U+2013"," ">>, <<" ","-"," ">>, <<" ","U+2014"," ">>, <<" ","-","-"," ">> >>

\* C4: split_day_and_title tries " <en dash> ", " - ", " <em dash> ", " -- " in
\* this order, splits on the first occurrence of the first of them that occurs
\* and trims both halves; without any of them the day label is empty and the
\* meal title is the trimmed heading.  "Monday <en dash> Pizza Night" gives
\* "Monday" and "Pizza Night".
C4_DelimiterOrder ==
    pc = "split_done" =>
        /\ sd_result = SplitOn(sd_raw_title, CLAIMED_DELIMITERS, 1)
        /\ sd_raw_title = <<"M","o","n","d","a","y"," ","U+2013"," ","P","i","z","z","a"," ","N","i","g","h","t">>
               => sd_result = << <<"M","o","n","d","a","y">>, <<"P","i","z","z","a"," ","N","i","g","h","t">> >>

\* The blocks convert_lines_to_html makes, as <<kind, items>> pairs.
PartShape(part) ==
    IF startswith(part, <<"<","u","l",">">>)
    THEN <<"ul", Cardinality(Occurrences(part, <<"<","l","i",">">>))>>
    ELSE <<"p", 1>>

ActualShapes == [k \in 1..Len(cl_parts) |-> PartShape(cl_parts[k])]

IsBlank(line) == strip(line) = << >>

\* The blocks when a list ends at the first line that is no list line, a blank
\* one included.
RECURSIVE ShapesBlankEnds(_, _)
ShapesBlankEnds(ls, open) ==
    IF ls = << >> THEN (IF open > 0 THEN << <<"ul", open>> >> ELSE << >>)
    ELSE IF IsListLine(Head(ls)) THEN ShapesBlankEnds(Tail(ls), open + 1)
    ELSE (IF open > 0 THEN << <<"ul", open>> >> ELSE << >>)
             \o (IF IsBlank(Head(ls)) THEN << >> ELSE << <<"p", 1>> >>)
             \o ShapesBlankEnds(Tail(ls), 0)

\* The blocks when blank lines do not end a list.
RECURSIVE ShapesBlankKeeps(_, _)
ShapesBlankKeeps(ls, open) ==
    IF ls = << >> THEN (IF open > 0 THEN << <<"ul", open>> >> ELSE << >>)
    ELSE IF IsListLine(Head(ls)) THEN ShapesBlankKeeps(Tail(ls), open + 1)
    ELSE IF IsBlank(Head(ls)) THEN ShapesBlankKeeps(Tail(ls), open)
    ELSE (IF open > 0 THEN << <<"ul", open>> >> ELSE << >>)
             \o << <<"p", 1>> >> \o ShapesBlankKeeps(Tail(ls), 0)

TACOS_EXAMPLE == << <<"-"," ","T","a","c","o","s">>, <<"-"," ","S","a","l","s","a">>, << >>, <<"S","e","r","v","e"," ","w","i","t","h"," ","l","i","m","e",".">> >>

\* C5, as stated: a blank line does not end a list; two "- " lines with only
\* blank lines between them are items of one <ul> block.
C5_BlankKeepsList ==
    pc = "convert_done" => ActualShapes = ShapesBlankKeeps(cl_lines, 0)

\* C5, amended: a list is a run of consecutive "- " lines and a blank line
\* ends it, so two "- " lines with a blank line between them are in two <ul>
\* blocks; the example gives one list of two items and then one paragraph.
C5_BlankEndsList ==
    pc = "convert_done" =>
        /\ ActualShapes = ShapesBlankEnds(cl_lines, 0)
        /\ cl_lines = TACOS_EXAMPLE =>
               cl_html = <<"<","u","l",">","<","l","i",">","T","a","c","o","s","<","/","l","i",">","<","l","i",">","S","a","l","s","a","<","/","l","i",">","<","/","u","l",">","\n","<","p",">","S","e","r","v","e"," ","w","i","t","h"," ","l","i","m","e",".","<","/","p",">">>

C5_Witness ==
    /\ pc = "convert_done"
    /\ \E p \in 1..(Len(cl_lines) - 2) :
           /\ IsListLine(cl_lines[p])
           /\ IsBlank(cl_lines[p + 1])
           /\ IsListLine(cl_lines[p + 2])
    /\ Len(cl_parts) = 2

\* The ways to read a text as A ** X ** B with no "*" in A and no "**"
\* in X: <<a, n>> are the lengths of A and of X.
HasStar2(s) == Contains(s, <<"*","*">>)

LeftmostPairs(t) ==
    {d \in (0..Len(t)) \X (0..Len(t)) :
        /\ d[1] + d[2] + 4 <= Len(t)
        /\ Star2(t, d[1] + 1)
        /\ Star2(t, d[1] + d[2] + 3)
        /\ ~Contains(SubSeq(t, 1, d[1]), <<"*">>)
        /\ ~HasStar2(SubSeq(t, d[1] + 3, d[1] + d[2] + 2))}

PartA(t, d) == SubSeq(t, 1, d[1])

PartX(t, d) == SubSeq(t, d[1] + 3, d[1] + d[2] + 2)

PartB(t, d) == From(t, d[1] + d[2] + 4)

Strong(x) == <<"<","s","t","r","o","n","g",">">> \o html_escape(x) \o <<"<","/","s","t","r","o","n","g",">">>

\* C6, as stated (for the leftmost pair of the text): whatever X is, empty or
\* ending with "*" included, the output holds a <strong> element whose
\* content is the escaped X.
C6_EveryPairIsStrong ==
    pc = "inline_done" =>
        \A d \in LeftmostPairs(ri_text) : Contains(ri_result, Strong(PartX(ri_text, d)))

\* An X that is not empty and does not end with "*", unless it is "*".
ProperX(x) == x # << >> /\ (Len(x) = 1 \/ x[Len(x)] # "*")

\* C6, amended: for a text A ** X ** B with no "*" in A and X not empty, without
\* "**" and not ending with "*" (unless X is "*"), the output is the escaped A,
\* then one <strong> element holding the escaped X, then the rendering of B;
\* when B has no "**" that element is the only one and no "**" is left.  The
\* text "****" (X empty) is no pair: it is left as it is.
C6_LeftmostPairIsStrong ==
    pc = "inline_done" =>
        /\ \A d \in LeftmostPairs(ri_text) :
               ProperX(PartX(ri_text, d)) =>
                   LET head == html_escape(PartA(ri_text, d)) \o Strong(PartX(ri_text, d))
                   IN  /\ startswith(ri_result, head)
                       /\ ~HasStar2(PartB(ri_text, d)) =>
                              /\ ri_result = head \o html_escape(PartB(ri_text, d))
                              /\ Cardinality(Occurrences(ri_result, <<"<","s","t","r","o","n","g",">">>)) = 1
                              /\ ~HasStar2(ri_result)
        /\ ri_text = <<"*","*","*","*">> => ri_result = <<"*","*","*","*">>

C6_Witness ==
    /\ pc = "inline_done"
    /\ \E d \in LeftmostPairs(ri_text) :
           /\ ProperX(PartX(ri_text, d))
           /\ Len(PartX(ri_text, d)) >= 2
           /\ PartX(ri_text, d)[1] = "*"
           /\ HasStar2(PartB(ri_text, d))
           /\ PartA(ri_text, d) # << >>

\* Undo reads an output of render_inline back: tags become "**", entities
\* the character they stand for; a bare <, >, &, ", ' is read as "?".
ENTITIES ==
    << <<<<"&","a","m","p",";">>, "&">>, <<<<"&","l","t",";">>, "<">>, <<<<"&","g","t",";">>, ">">>, <<<<"&","q","u","o","t",";">>, "\"">>,
       <<<<"&","#","x","2","7",";">>, "'">>, <<<<"<","s","t","r","o","n","g",">">>, "**">>, <<<<"<","/","s","t","r","o","n","g",">">>, "**">> >>

RECURSIVE Undo(_)
Undo(out) ==
    IF out = << >> THEN << >>
    ELSE IF \E k \in 1..Len(ENTITIES) : startswith(out, ENTITIES[k][1])
         THEN LET k == CHOOSE j \in 1..Len(ENTITIES) : startswith(out, ENTITIES[j][1])
              IN  (IF ENTITIES[k][2] = "**" THEN <<"*","*">> ELSE <<ENTITIES[k][2]>>)
                      \o Undo(From(out, Len(ENTITIES[k][1])))
    ELSE IF Head(out) \in {"<", ">", "&", "\"", "'"} THEN <<"?">> \o Undo(Tail(out))
    ELSE <<Head(out)>> \o Undo(Tail(out))

\* C7: every <, >, &, ", ' of the output of render_inline belongs to a
\* <strong> or </strong> tag or opens one of the five entities, and undoing
\* the tags and the entities once gives the input text back: each character
\* was escaped exactly once, inside a span, outside one and next to an
\* unmatched "**".
C7_EscapedExactlyOnce ==
    pc = "inline_done" => Undo(ri_result) = ri_text

C7_Witness ==
    /\ pc = "inline_done"
    /\ ri_text = <<"<","&","*","*",">","\"","'","*","*","a","*","*">>

\* The k-th section has a day label that names no weekday.
Unresolved(k) == DayLabelOf(k) # << >> /\ extract_weekday(DayLabelOf(k)) = None

\* C8, as stated: a card whose day label is not empty and names no weekday
\* has no day/date line at all.
C8_NoDayLineWithoutWeekday ==
    Built => \A k \in 1..Len(cards_html) :
                 Unresolved(k) => ~Contains(cards_html[k], MEAL_DAY_OPEN)

\* C8, amended: such a section does not fail the run and its card leaves out
\* the date only: the day line is there with the escaped day label in its
\* day-name element and without a meal-date element, with or without a map.
C8_DayLineWithoutDate ==
    Built =>
        /\ Len(cards_html) = Len(sections)
        /\ \A k \in 1..Len(cards_html) :
               Unresolved(k) =>
                   /\ Contains(cards_html[k],
                          MEAL_DAY_OPEN \o <<"<","s","p","a","n"," ","c","l","a","s","s","=","\"","d","a","y","-","n","a","m","e","\"",">">>
                              \o html_escape(DayLabelOf(k)) \o <<"<","/","s","p","a","n",">","<","/","p",">">>)
                   /\ ~Contains(cards_html[k], <<"m","e","a","l","-","d","a","t","e">>)

C8_Witness ==
    /\ Built
    /\ iso_dates # None
    /\ \E k \in 1..Len(cards_html) : Unresolved(k) /\ DayLabelOf(k) = <<"L","u","n","c","h">>
    /\ \E k \in 1..Len(cards_html) : Unresolved(k) /\ DayLabelOf(k) # <<"L","u","n","c","h">>

\* The k-th section has a day label that names a weekday.
Resolved(k) == DayLabelOf(k) # << >> /\ extract_weekday(DayLabelOf(k)) # None

\* C9: a card has a meal-date element exactly when its day label is not
\* empty, extract_weekday finds a weekday in it and main built an ISO date
\* map; the date shown is the map's date for that weekday; without a map the
\* run does not fail and no card has a date.
C9_DateIffResolved ==
    /\ Built => \A k \in 1..Len(cards_html) :
           /\ Contains(cards_html[k], MEAL_DATE_OPEN)
                  <=> (Resolved(k) /\ iso_dates # None)
           /\ (Resolved(k) /\ iso_dates # None) =>
                  /\ extract_weekday(DayLabelOf(k))[1] \in 1..7
                  /\ Contains(cards_html[k],
                         MEAL_DATE_OPEN
                             \o html_escape(format_display_date(
                                    iso_dates[extract_weekday(DayLabelOf(k))[1]]))
                             \o <<"<","/","s","p","a","n",">">>)
    /\ (year = None /\ iso_week = None) =>
           /\ pc \notin {"usage_error", "iso_error"}
           /\ iso_dates = None

C9_Witness ==
    /\ Built
    /\ iso_dates # None
    /\ \E k \in 1..Len(cards_html) : Resolved(k)
    /\ \E k \in 1..Len(cards_html) : ~Resolved(k)

\* The ISO weeks of a year, from the distance between two week-1 Mondays.
WeeksInYear(y) == (isoweek1monday(y + 1) - isoweek1monday(y)) \div 7

ValidIsoWeek(y, w) == 1 <= w /\ w <= WeeksInYear(y)

PastIsoDates == pc \notin {"parse_args", "read_text", "iso_dates", "usage_error"}

\* C10: the ISO date map is settled before any output and is all or nothing.
\* With a (year, week) pair that is no ISO week of the year the run ends in
\* the error state with no document built, no directory made and no file
\* written; with a valid pair the map holds the seven consecutive days of
\* the week, Monday first; a map of fewer days is never there.
C10_IsoMapAllOrNothing ==
    /\ pc = "iso_error" =>
          /\ html_document = None /\ cards_html = << >> /\ raw_lines = << >>
          /\ output_dir = FALSE /\ output_file = None
          /\ iso_dates = None
    /\ (PastIsoDates /\ year # None /\ iso_week # None) =>
          IF ValidIsoWeek(year[1], iso_week[1])
          THEN pc # "iso_error" /\ iso_dates # None
          ELSE pc = "iso_error"
    /\ iso_dates # None =>
          /\ Len(iso_dates) = 7
          /\ year # None /\ iso_week # None /\ ValidIsoWeek(year[1], iso_week[1])
          /\ ymd2ord(iso_dates[1].year, iso_dates[1].month, iso_dates[1].day) % 7 = 1
          /\ \A w \in 1..6 :
                 ymd2ord(iso_dates[w + 1].year, iso_dates[w + 1].month, iso_dates[w + 1].day)
                     = ymd2ord(iso_dates[w].year, iso_dates[w].month, iso_dates[w].day) + 1
    /\ (output_dir \/ output_file # None) => pc \in {"write_text", "done"}

C10_Witness ==
    /\ pc = "iso_error"
    /\ year = Some(2025)
    /\ iso_week = Some(53)
    /\ input_file # << >>

\* The valid week 53 of 2026 is reached too: its Sunday is January 3, 2027.
C10_ValidWeekReached ==
    /\ pc = "done"
    /\ year = Some(2026)
    /\ iso_week = Some(53)
    /\ iso_dates[7] = [year |-> 2027, month |-> 1, day |-> 3]

=============================================================================
